---------------------------- MODULE Spec2Model ----------------------------
(***************************************************************************)
(* Player Landing Backend (src/main.py): the three write endpoints         *)
(* create_player, add_testimonial and submit_contact over a document       *)
(* store, and the e-mail dispatcher send_email_background that             *)
(* submit_contact schedules as a background task.                          *)
(*                                                                         *)
(* A request is a slot of Req.  Handlers that touch the store more than    *)
(* once are split at their store operations, so that requests interleave   *)
(* there; each store operation takes an input up: whether the store        *)
(* answers this operation or the driver raises.                            *)
(* Strings that the code inspects character by character (slugs, the       *)
(* SMTP_PORT value) are sequences of one-character strings.                *)
(***************************************************************************)
EXTENDS Integers, Sequences, FiniteSets

\* ------------------------------------------------------------- bounds
\* Number of HTTP requests in one run.
MaxReq == 2

Req == 1..MaxReq

\* --------------------------------------------------------- input sets
\* Optional values: Python None, and a present value.
None == [none |-> TRUE]
Some(v) == [val |-> v]

\* Slugs sent as Player.slug: well formed ones, the malformed examples of
\* the documentation (underscore, upper case, leading, trailing and double
\* dash), the empty string and a slug ending in a line feed.
SlugInputs ==
    { <<"a", "-", "0">>, <<"b">>,
      <<"a", "_", "b">>, <<"A">>, <<"-", "a">>, <<"a", "-">>,
      <<"a", "-", "-", "b">>, <<>>, <<"b", "\n">> }

\* Slugs used in the URL path and as player_slug of a testimonial or a
\* contact submission.
PathSlugs == { <<"a", "-", "0">>, <<"b">> }

\* Player.contact_email: Optional[EmailStr].
EmailInputs == { None, Some("coach@example.com") }

\* Process environments: which of the SMTP_* variables are set, and to what.
\* The process environment is fixed for a run.  Nothing reads it before the
\* first dispatch, so it is drawn when send_email_background first calls
\* os.getenv, and env is Unread until then.
Unread == [unread |-> TRUE]

\* The mail transport is fully configured (with the port unset, numeric or
\* not a number), or lacks exactly one of host, user and password, or all
\* three (with or without a port).
SmtpNames == { "SMTP_HOST", "SMTP_USER", "SMTP_PASS" }
EnvFull == [n \in SmtpNames |-> <<"h">>]
WithPort(e, text) ==
    [n \in DOMAIN e \cup { "SMTP_PORT" } |-> IF n = "SMTP_PORT" THEN text ELSE e[n]]
Without(e, name) == [n \in DOMAIN e \ { name } |-> e[n]]
EnvInputs ==
    { EnvFull, WithPort(EnvFull, <<"2", "5">>), WithPort(EnvFull, <<"x">>),
      WithPort(<<>>, <<"x">>), <<>> }
    \cup { Without(EnvFull, n) : n \in SmtpNames }

\* Where the SMTP conversation of one dispatch breaks, if anywhere.
NetOutcomes == { "ok", "connect", "starttls", "login", "sendmail" }

VARIABLES
    env,            \* the SMTP_* variables of os.environ, once read
    player,         \* collection "player", in insertion order
    testimonial,    \* collection "testimonial"
    contactsubmission, \* collection "contactsubmission"
    req,            \* the requests: handler, position, arguments, response
    task            \* the background task of each request

vars == <<env, player, testimonial, contactsubmission, req, task>>

\* ------------------------------------------------------------ helpers
IdleReq ==
    [kind |-> "idle", pc |-> "idle", slug |-> <<>>, body_slug |-> <<>>,
     email |-> None, found |-> "unread", resp |-> 0]

NoTask == [state |-> "none", to |-> None, connected |-> FALSE, sent |-> FALSE]

\* The slot of the next request: requests are numbered in arrival order.
NextSlot(r) ==
    /\ req[r].kind = "idle"
    /\ \A q \in Req : q < r => req[q].kind # "idle"

\* A handler ends: the response status is sent.
Respond(r, status) ==
    req' = [req EXCEPT ![r].pc = "done", ![r].resp = status]

\* [a-z0-9]
IsAlnum(c) == c \in { "a", "b", "0" }

\* [a-z0-9]+(?:-[a-z0-9]+)* consumes exactly s.
MatchesBody(s) ==
    /\ Len(s) > 0
    /\ IsAlnum(s[1]) /\ IsAlnum(s[Len(s)])
    /\ \A i \in 1..Len(s) : IsAlnum(s[i]) \/ s[i] = "-"
    /\ \A i \in 1..(Len(s) - 1) : ~(s[i] = "-" /\ s[i + 1] = "-")

\* Python's $ (no MULTILINE): at the end of the string, or just before a
\* line feed that ends the string.
DollarAt(s, i) ==
    \/ i = Len(s)
    \/ i = Len(s) - 1 /\ s[Len(s)] = "\n"

\* slug_regex.match(s)
SlugRegexMatch(s) ==
    \E i \in 0..Len(s) : MatchesBody(SubSeq(s, 1, i)) /\ DollarAt(s, i)

\* create_document(collection, data): one insert; the request number stands
\* for the identifier the store generates.
create_document(coll, doc) == Append(coll, doc)

\* find({"slug": s}).limit(1) / find_one({"slug": s})
FindBySlug(coll, s) ==
    LET hits == { i \in 1..Len(coll) : coll[i].slug = s }
    IN  IF hits = {} THEN None
        ELSE Some(coll[CHOOSE i \in hits : \A j \in hits : i <= j])

Init ==
    /\ env = Unread
    /\ player = <<>>
    /\ testimonial = <<>>
    /\ contactsubmission = <<>>
    /\ req = [r \in Req |-> IdleReq]
    /\ task = [r \in Req |-> NoTask]

\* ------------------------------------------------------- create_player
\* POST /api/players: the slug format check, before any store access.
CreatePlayerCall(r, s, e) ==
    /\ NextSlot(r)
    /\ IF ~SlugRegexMatch(s)
       THEN req' = [req EXCEPT ![r] = [IdleReq EXCEPT !.kind = "player",
                        !.slug = s, !.pc = "done", !.resp = 400]]
       ELSE req' = [req EXCEPT ![r] = [IdleReq EXCEPT !.kind = "player",
                        !.slug = s, !.email = e, !.pc = "check"]]
    /\ UNCHANGED <<env, player, testimonial, contactsubmission, task>>

\* Mutant of SlugExists: the lookup is skipped, as on the "if db else []" path.
SlugExistsSkipped(s) == FALSE

\* existing = list(find({"slug": slug}).limit(1)): is the slug taken?
SlugExists(s) == FindBySlug(player, s) # None

\* The uniqueness check; a store that does not answer raises (500).
CheckUnique(r, up) ==
    /\ req[r].kind = "player" /\ req[r].pc = "check"
    /\ IF ~up THEN Respond(r, 500)
       ELSE IF SlugExists(req[r].slug) THEN Respond(r, 409)
       ELSE req' = [req EXCEPT ![r].pc = "insert"]
    /\ UNCHANGED <<env, player, testimonial, contactsubmission, task>>

\* Mutant of InsertPlayer: the insert looks the slug up again and answers
\* 409 when it has appeared since the check.
InsertPlayerIfAbsent(r, up) ==
    /\ req[r].kind = "player" /\ req[r].pc = "insert"
    /\ IF ~up
       THEN /\ Respond(r, 500)
            /\ UNCHANGED player
       ELSE IF SlugExists(req[r].slug)
       THEN /\ Respond(r, 409)
            /\ UNCHANGED player
       ELSE /\ player' = create_document(player,
                    [id |-> r, slug |-> req[r].slug, contact_email |-> req[r].email])
            /\ req' = [req EXCEPT ![r].pc = "fetch"]
    /\ UNCHANGED <<env, testimonial, contactsubmission, task>>

\* _id = create_document("player", player)
InsertPlayer(r, up) ==
    /\ req[r].kind = "player" /\ req[r].pc = "insert"
    /\ IF ~up
       THEN /\ Respond(r, 500)
            /\ UNCHANGED player
       ELSE /\ player' = create_document(player,
                    [id |-> r, slug |-> req[r].slug, contact_email |-> req[r].email])
            /\ req' = [req EXCEPT ![r].pc = "fetch"]
    /\ UNCHANGED <<env, testimonial, contactsubmission, task>>

\* created = find_one({"slug": slug}); the profile is echoed with 200.
FetchCreated(r, up) ==
    /\ req[r].kind = "player" /\ req[r].pc = "fetch"
    /\ IF ~up \/ FindBySlug(player, req[r].slug) = None
       THEN Respond(r, 500)
       ELSE Respond(r, 200)
    /\ UNCHANGED <<env, player, testimonial, contactsubmission, task>>

\* ----------------------------------------------------- add_testimonial
\* Mutant of SlugMismatch: the comparison is inverted.
SlugMismatchInverted(body, path) == body = path

\* testimonial.player_slug != slug (and payload.player_slug != slug)
SlugMismatch(body, path) == body # path

\* POST /api/players/{slug}/testimonials
AddTestimonial(r, path, body, up) ==
    /\ NextSlot(r)
    /\ LET status == IF SlugMismatch(body, path) THEN 400
                     ELSE IF ~up THEN 500 ELSE 200
       IN  /\ req' = [req EXCEPT ![r] = [IdleReq EXCEPT !.kind = "testimonial",
                        !.slug = path, !.body_slug = body, !.pc = "done",
                        !.resp = status]]
           /\ testimonial' = IF status = 200
                             THEN create_document(testimonial,
                                      [id |-> r, player_slug |-> body])
                             ELSE testimonial
    /\ UNCHANGED <<env, player, contactsubmission, task>>

\* ------------------------------------------------------ submit_contact
\* POST /api/players/{slug}/contact: the path/body consistency check.
SubmitContactCall(r, path, body) ==
    /\ NextSlot(r)
    /\ IF SlugMismatch(body, path)
       THEN req' = [req EXCEPT ![r] = [IdleReq EXCEPT !.kind = "contact",
                        !.slug = path, !.body_slug = body, !.pc = "done",
                        !.resp = 400]]
       ELSE req' = [req EXCEPT ![r] = [IdleReq EXCEPT !.kind = "contact",
                        !.slug = path, !.body_slug = body, !.pc = "store"]]
    /\ UNCHANGED <<env, player, testimonial, contactsubmission, task>>

\* create_document("contactsubmission", payload)
StoreSubmission(r, up) ==
    /\ req[r].kind = "contact" /\ req[r].pc = "store"
    /\ IF ~up
       THEN /\ Respond(r, 500)
            /\ UNCHANGED contactsubmission
       ELSE /\ contactsubmission' = create_document(contactsubmission,
                    [id |-> r, player_slug |-> req[r].body_slug])
            /\ req' = [req EXCEPT ![r].pc = "lookup"]
    /\ UNCHANGED <<env, player, testimonial, task>>

\* Mutant of HasContactEmail: only the player is tested, not its e-mail.
HasContactEmailLoose(p) == p # None

\* player and player.get("contact_email")
HasContactEmail(p) == p # None /\ p.val.contact_email # None

\* player = find_one({"slug": slug}); with a contact e-mail the message is
\* composed and the dispatcher is added to the background tasks.  The
\* lookup is not guarded: a store that does not answer raises (500).
LookupPlayer(r, up) ==
    /\ req[r].kind = "contact" /\ req[r].pc = "lookup"
    /\ IF ~up
       THEN /\ Respond(r, 500)
            /\ UNCHANGED task
       ELSE LET p == FindBySlug(player, req[r].slug)
            IN  /\ req' = [req EXCEPT ![r].pc = "return",
                       ![r].found = IF p = None THEN "absent"
                                    ELSE IF p.val.contact_email = None
                                    THEN "noemail" ELSE "email"]
                /\ task' = IF HasContactEmail(p)
                           THEN [task EXCEPT ![r].state = "scheduled",
                                             ![r].to = p.val.contact_email]
                           ELSE task
    /\ UNCHANGED <<env, player, testimonial, contactsubmission>>

\* return {"status": "ok"}: the response is sent.
ReturnOk(r) ==
    /\ req[r].kind = "contact" /\ req[r].pc = "return"
    /\ Respond(r, 200)
    /\ UNCHANGED <<env, player, testimonial, contactsubmission, task>>

\* ----------------------------------------------- send_email_background
\* os.getenv(name, default)
getenv(e, name, default) == IF name \in DOMAIN e THEN Some(e[name]) ELSE default

\* int(text): the text must be a decimal literal.
IntParses(text) ==
    /\ Len(text) > 0
    /\ \A i \in 1..Len(text) : text[i] \in { "0", "2", "5", "8", "7" }

\* int(os.getenv("SMTP_PORT", "587")) raises ValueError
PortRaises(e) == ~IntParses(getenv(e, "SMTP_PORT", Some(<<"5", "8", "7">>)).val)

\* Python truth of an optional string
Truthy(x) == x # None /\ x.val # <<>>

\* Mutant of SmtpConfigured: a host alone counts as configured.
SmtpConfiguredHostOnly(e) == Truthy(getenv(e, "SMTP_HOST", None))

\* smtp_host and smtp_user and smtp_pass
SmtpConfigured(e) ==
    /\ Truthy(getenv(e, "SMTP_HOST", None))
    /\ Truthy(getenv(e, "SMTP_USER", None))
    /\ Truthy(getenv(e, "SMTP_PASS", None))

\* Mutant of MayRunTask: the dispatcher is run as soon as it is scheduled.
MayRunTaskAtOnce(r) == TRUE

\* The background tasks of a response run once the response has been sent.
MayRunTask(r) == req[r].pc = "done" /\ req[r].resp = 200

StartDispatcher(r) ==
    /\ task[r].state = "scheduled"
    /\ MayRunTask(r)
    /\ task' = [task EXCEPT ![r].state = "running"]
    /\ UNCHANGED <<env, player, testimonial, contactsubmission, req>>

\* The outcome of send_email_background under environment e; net is the
\* step of the SMTP conversation that raises.  Only the with-block is
\* inside the try.
Dispatch(t, e, net) ==
    IF PortRaises(e) THEN [t EXCEPT !.state = "raised"]
    ELSE IF ~SmtpConfigured(e) THEN [t EXCEPT !.state = "returned"]
    ELSE [t EXCEPT !.state = "returned",
                   !.connected = (net # "connect"),
                   !.sent = (net = "ok")]

FinishDispatcher(r, e, net) ==
    /\ task[r].state = "running"
    /\ env \in { Unread, e }
    /\ env' = e
    /\ task' = [task EXCEPT ![r] = Dispatch(@, e, net)]
    /\ UNCHANGED <<player, testimonial, contactsubmission, req>>

\* ------------------------------------------------------ specifications
\* Requests interleave and any store operation may fail.
Next ==
    \/ \E r \in Req, s \in SlugInputs, e \in EmailInputs : CreatePlayerCall(r, s, e)
    \/ \E r \in Req, up \in BOOLEAN : CheckUnique(r, up)
    \/ \E r \in Req, up \in BOOLEAN : InsertPlayer(r, up)
    \/ \E r \in Req, up \in BOOLEAN : FetchCreated(r, up)
    \/ \E r \in Req, p \in PathSlugs, b \in PathSlugs, up \in BOOLEAN :
            AddTestimonial(r, p, b, up)
    \/ \E r \in Req, p \in PathSlugs, b \in PathSlugs : SubmitContactCall(r, p, b)
    \/ \E r \in Req, up \in BOOLEAN : StoreSubmission(r, up)
    \/ \E r \in Req, up \in BOOLEAN : LookupPlayer(r, up)
    \/ \E r \in Req : ReturnOk(r)
    \/ \E r \in Req : StartDispatcher(r)
    \/ \E r \in Req, e \in EnvInputs, net \in NetOutcomes : FinishDispatcher(r, e, net)

Spec == Init /\ [][Next]_vars

\* Requests interleave and the store answers every operation.
NextUp ==
    \/ \E r \in Req, s \in SlugInputs, e \in EmailInputs : CreatePlayerCall(r, s, e)
    \/ \E r \in Req : CheckUnique(r, TRUE)
    \/ \E r \in Req : InsertPlayer(r, TRUE)
    \/ \E r \in Req : FetchCreated(r, TRUE)
    \/ \E r \in Req, p \in PathSlugs, b \in PathSlugs : AddTestimonial(r, p, b, TRUE)
    \/ \E r \in Req, p \in PathSlugs, b \in PathSlugs : SubmitContactCall(r, p, b)
    \/ \E r \in Req : StoreSubmission(r, TRUE)
    \/ \E r \in Req : LookupPlayer(r, TRUE)
    \/ \E r \in Req : ReturnOk(r)
    \/ \E r \in Req : StartDispatcher(r)
    \/ \E r \in Req, e \in EnvInputs, net \in NetOutcomes : FinishDispatcher(r, e, net)

SpecUp == Init /\ [][NextUp]_vars

\* No create_player call is in progress.
NoCreateInFlight == \A q \in Req : req[q].kind = "player" => req[q].pc = "done"

\* The store answers every operation and create_player calls do not
\* overlap one another (other requests still interleave with them).
NextSeq ==
    \/ \E r \in Req, s \in SlugInputs, e \in EmailInputs :
            NoCreateInFlight /\ CreatePlayerCall(r, s, e)
    \/ \E r \in Req : CheckUnique(r, TRUE)
    \/ \E r \in Req : InsertPlayer(r, TRUE)
    \/ \E r \in Req : FetchCreated(r, TRUE)
    \/ \E r \in Req, p \in PathSlugs, b \in PathSlugs : AddTestimonial(r, p, b, TRUE)
    \/ \E r \in Req, p \in PathSlugs, b \in PathSlugs : SubmitContactCall(r, p, b)
    \/ \E r \in Req : StoreSubmission(r, TRUE)
    \/ \E r \in Req : LookupPlayer(r, TRUE)
    \/ \E r \in Req : ReturnOk(r)
    \/ \E r \in Req : StartDispatcher(r)
    \/ \E r \in Req, e \in EnvInputs, net \in NetOutcomes : FinishDispatcher(r, e, net)

SpecSeq == Init /\ [][NextSeq]_vars

\* ------------------------------------------------------------- claims
\* Request r inserted a document into collection coll.
StoredIn(coll, r) == \E i \in 1..Len(coll) : coll[i].id = r

Done(r) == req[r].pc = "done"

\* C1: a testimonial or contact submission whose body player_slug differs
\* from the path slug is answered 400, writes nothing and schedules no
\* notification; so every stored testimonial and contact submission carries
\* the path slug of the request that stored it.
C1_MismatchRejected ==
    /\ \A r \in Req :
          /\ req[r].kind \in { "testimonial", "contact" }
          /\ req[r].body_slug # req[r].slug
          => /\ Done(r) /\ req[r].resp = 400
             /\ ~StoredIn(testimonial, r) /\ ~StoredIn(contactsubmission, r)
             /\ task[r] = NoTask
    /\ \A i \in 1..Len(testimonial) :
          /\ req[testimonial[i].id].kind = "testimonial"
          /\ testimonial[i].player_slug = req[testimonial[i].id].slug
    /\ \A i \in 1..Len(contactsubmission) :
          /\ req[contactsubmission[i].id].kind = "contact"
          /\ contactsubmission[i].player_slug = req[contactsubmission[i].id].slug

\* Both endpoints have rejected a mismatching body.
C1_Witness ==
    \E r, q \in Req :
        /\ req[r].kind = "testimonial" /\ req[r].body_slug # req[r].slug
        /\ req[q].kind = "contact" /\ req[q].body_slug # req[q].slug
        /\ req[r].resp = 400 /\ req[q].resp = 400

\* C2: once submit_contact has persisted the submission, the request ends
\* with the acknowledgement (status 200), whatever the later steps do.
C2_AckOncePersisted ==
    \A r \in Req :
        req[r].kind = "contact" /\ Done(r) /\ StoredIn(contactsubmission, r)
        => req[r].resp = 200

\* C3: with create_player calls that do not overlap and a store that
\* answers, a call with an accepted slug either is the one that inserted
\* the only Player document of that slug and returned 200, or inserted
\* nothing and returned 409 after another call had succeeded with the slug.
C3_CreatedExactlyOnce ==
    \A r \in Req :
        req[r].kind = "player" /\ Done(r) /\ SlugRegexMatch(req[r].slug)
        => LET same == { i \in 1..Len(player) : player[i].slug = req[r].slug }
           IN  /\ Cardinality(same) = 1
               /\ \/ /\ req[r].resp = 200
                     /\ \A i \in same : player[i].id = r
                  \/ /\ req[r].resp = 409
                     /\ ~StoredIn(player, r)
                     /\ \E q \in Req \ { r } :
                           /\ req[q].kind = "player" /\ req[q].slug = req[r].slug
                           /\ req[q].resp = 200

\* A second creation with the slug of a created player was answered 409.
C3_Witness ==
    \E r, q \in Req :
        /\ req[r].kind = "player" /\ req[q].kind = "player"
        /\ req[r].slug = req[q].slug
        /\ req[r].resp = 200 /\ req[q].resp = 409

\* C4: send_email_background never raises to its caller.
C4_NeverRaises == \A r \in Req : task[r].state # "raised"

\* C5: the dispatcher of a contact submission runs only once the response
\* (200) has been sent, and a response that has been sent never changes,
\* whether the dispatcher then delivers, fails or never finishes.
C5_AfterResponse ==
    [][\A r \in Req :
          /\ task'[r].state \in { "running", "returned", "raised" }
             => req'[r].pc = "done" /\ req'[r].resp = 200
          /\ req[r].resp # 0 => req'[r].resp = req[r].resp]_vars

\* A dispatch failed inside the SMTP conversation after a 200 response.
C5_Witness ==
    \E r \in Req :
        /\ req[r].resp = 200
        /\ task[r].state = "returned" /\ task[r].connected /\ ~task[r].sent

\* C6: submit_contact has no partial success: a request that ends in an
\* error has stored nothing and scheduled nothing, and a request that ends
\* in success has stored its submission.
C6_NoPartialSuccess ==
    \A r \in Req :
        req[r].kind = "contact" /\ Done(r)
        => /\ req[r].resp = 200 => StoredIn(contactsubmission, r)
           /\ req[r].resp # 200 =>
                 ~StoredIn(contactsubmission, r) /\ task[r] = NoTask

\* C7: with a store that answers, a contact submission with a matching slug
\* whose player lookup found no player, or a player without contact_email,
\* is stored, schedules no notification and is answered 200.
C7_NoTargetStillAccepted ==
    \A r \in Req :
        /\ req[r].kind = "contact" /\ req[r].body_slug = req[r].slug
        /\ req[r].found \in { "absent", "noemail" }
        => /\ StoredIn(contactsubmission, r)
           /\ task[r] = NoTask
           /\ req[r].pc \in { "return", "done" }
           /\ Done(r) => req[r].resp = 200

\* A submission for a player without contact_email was acknowledged.
C7_Witness ==
    \E r \in Req :
        /\ req[r].kind = "contact" /\ req[r].found = "noemail"
        /\ Done(r) /\ req[r].resp = 200

\* Host, user or password is missing from the environment.
MailConfigMissing == env # Unread /\ \E n \in SmtpNames : n \notin DOMAIN env

\* C8: with a store that answers, a contact submission for a player with a
\* contact_email is answered 200 and has its dispatcher scheduled; when
\* host, user or password is missing, that dispatcher opens no connection
\* and sends nothing.
C8_UnconfiguredNoNetwork ==
    \A r \in Req :
        req[r].kind = "contact" /\ req[r].found = "email"
        => /\ task[r].state # "none"
           /\ Done(r) => req[r].resp = 200
           /\ MailConfigMissing => ~task[r].connected /\ ~task[r].sent

\* The dispatcher ran to its end with only the password missing.
C8_Witness ==
    \E r \in Req :
        /\ req[r].found = "email" /\ req[r].resp = 200
        /\ task[r].state = "returned"
        /\ env # Unread /\ DOMAIN env = SmtpNames \ { "SMTP_PASS" }

\* Lower-case alphanumeric segments joined by single dashes: the whole of s
\* is in the language of [a-z0-9]+(-[a-z0-9]+)*.
WellFormedSlug(s) ==
    /\ s # <<>>
    /\ \A i \in 1..Len(s) :
          \/ IsAlnum(s[i])
          \/ /\ s[i] = "-"
             /\ 1 < i /\ i < Len(s)
             /\ IsAlnum(s[i - 1]) /\ IsAlnum(s[i + 1])

\* C9: create_player with a slug that is not well formed is answered 400
\* and persists no Player document.
C9_MalformedRejected ==
    \A r \in Req :
        req[r].kind = "player" /\ ~WellFormedSlug(req[r].slug)
        => /\ ~StoredIn(player, r)
           /\ Done(r) => req[r].resp = 400

\* C10: a create_player call that passed the uniqueness check before
\* another call with the same slug inserted still inserts its own
\* document, and then returns 200: two calls that interleave so both
\* insert and both succeed.
C10_RaceBothInsert ==
    [][\A r, q \in Req :
          /\ r # q
          /\ req[r].kind = "player" /\ req[q].kind = "player"
          /\ req[r].slug = req[q].slug
          /\ StoredIn(player, q)
          => /\ req[r].pc = "insert" /\ req'[r].pc # "insert"
                => StoredIn(player', r) /\ req'[r].pc = "fetch"
             /\ req[r].pc = "fetch" /\ req'[r].pc # "fetch"
                => req'[r].resp = 200]_vars

\* Two Player documents share a slug and both calls returned 200.
C10_Witness ==
    \E r, q \in Req, i, j \in 1..Len(player) :
        /\ r # q /\ i # j
        /\ player[i].slug = player[j].slug
        /\ player[i].id = r /\ player[j].id = q
        /\ req[r].resp = 200 /\ req[q].resp = 200

=============================================================================
